---- MODULE Spec2Model ----
(***************************************************************************)
(* Model of ore_algebra/analytic/factorization.py: the recursive driver    *)
(* factor / rfactor, the monodromy pipeline rfactor_via_monodromy with its *)
(* retry recursion, the three invariant-subspace strategies, annihilator   *)
(* and the trivial-monodromy fallback.                                     *)
(*                                                                         *)
(* Differential operators are kept up to a unit (the code calls .monic()   *)
(* and compares up to normalisation): an operator is the word of its       *)
(* irreducible factors, a letter being <<atom, shift>>; the empty word is  *)
(* an operator of order 0.  Composition is concatenation, exact right      *)
(* division is "is a suffix of", and composing with z + s moves every      *)
(* letter by s.  The external collaborators (analytic-continuation         *)
(* engine, eigenspace computations, symbolic recognition, guessing and     *)
(* approximant bases) are choices over the values their interfaces allow.  *)
(***************************************************************************)
EXTENDS Integers, Sequences, FiniteSets, TLC

\* ------------------------------------------------------------------ bounds
\* largest order of an input operator
MaxOrder == 3
\* most retries (recursive calls) of one pipeline / fallback invocation
MaxAttempts == 1
\* most entries of the fac/todo lists together (recursion of _factor)
MaxFactors == 3
\* most generalized eigenspaces the random combination is given
MaxSpaces == 2
\* accuracy (bits) of a badly conditioned matrix, below the threshold 10
LowAcc == 5
\* bits a moderately inaccurate matrix loses with respect to the request
AccDrop == 40
\* precision from which the engine and the linear algebra raise no error
EnoughPrecision == 300
\* algebraic degree from which the strategies are conclusive
EnoughDegree == 3
\* truncation order from which the fallback finds a right factor
EnoughOrder == 4

\* largest truncation order the fallback is called with directly
MaxCallOrder == 4

\* ------------------------------------------------- the input operators
\* irreducible operators the inputs are built from
Atoms == {1, 2, 3}
\* order of each atom
AtomOrder == <<1, 1, 2>>
\* whether the atom has a nonzero rational solution
AtomRat == <<TRUE, FALSE, FALSE>>
\* roots of the atom's leading coefficient
AtomSing == <<{1}, {}, {0}>>
\* degree of the atom's polynomial coefficients
AtomDeg == <<1, 0, 2>>
\* largest modulus of the atom's local exponents
AtomExp == <<1, 0, 1>>
\* degree of the number field of the atom's coefficients
AtomFieldDeg == <<1, 2, 1>>
\* the atom that is the formal adjoint of each atom
AtomAdj == <<1, 2, 3>>

\* the words of total order n
RECURSIVE WordsOfOrder(_)
WordsOfOrder(n) ==
    IF n = 0 THEN {<<>>}
    ELSE UNION {{<< <<a, 0>> >> \o w : w \in WordsOfOrder(n - AtomOrder[a])} :
                  a \in {x \in Atoms : AtomOrder[x] <= n}}

Inputs == UNION {WordsOfOrder(n) : n \in 0..MaxOrder}

\* ------------------------------------------------- operator algebra layer
Max2(a, b) == IF a >= b THEN a ELSE b
Min2(a, b) == IF a <= b THEN a ELSE b

RECURSIVE Order(_)
Order(w) == IF w = <<>> THEN 0 ELSE AtomOrder[w[1][1]] + Order(Tail(w))

RECURSIVE Degree(_)
Degree(w) == IF w = <<>> THEN 0 ELSE AtomDeg[w[1][1]] + Degree(Tail(w))

RECURSIVE Singularities(_)
Singularities(w) ==
    IF w = <<>> THEN {}
    ELSE {p - w[1][2] : p \in AtomSing[w[1][1]]} \cup Singularities(Tail(w))

RECURSIVE LargestExponent(_)
LargestExponent(w) ==
    IF w = <<>> THEN 0 ELSE Max2(AtomExp[w[1][1]], LargestExponent(Tail(w)))

RECURSIVE FieldDegree(_)
FieldDegree(w) ==
    IF w = <<>> THEN 1 ELSE Max2(AtomFieldDeg[w[1][1]], FieldDegree(Tail(w)))

\* dop.annihilator_of_composition(z + s)
Shift(w, s) == [i \in 1..Len(w) |-> <<w[i][1], w[i][2] + s>>]

\* the product A*B
Compose(a, b) == a \o b

\* dop % R == 0
Divides(R, dop) ==
    /\ Len(R) <= Len(dop)
    /\ SubSeq(dop, Len(dop) - Len(R) + 1, Len(dop)) = R

\* dop // R : the exact quotient when R divides dop, else the Euclidean
\* quotient, which drops a nonzero remainder
Quo(dop, R) == SubSeq(dop, 1, Max2(Len(dop) - Len(R), 0))

RECURSIVE Product(_)
Product(ops) == IF ops = <<>> THEN <<>> ELSE Compose(ops[1], Product(Tail(ops)))

RECURSIVE SumOrder(_)
SumOrder(ops) == IF ops = <<>> THEN 0 ELSE Order(ops[1]) + SumOrder(Tail(ops))

\* myadjoint: the formal adjoint, an anti-automorphism
myadjoint(w) ==
    [i \in 1..Len(w) |-> <<AtomAdj[w[Len(w) + 1 - i][1]], w[Len(w) + 1 - i][2]>>]

\* ------------------------------------------------------- values returned
Op(w) == [t |-> "op", w |-> w]
NoneV == [t |-> "None", w |-> <<>>]
Inconclusive == [t |-> "Inconclusive", w |-> <<>>]
NotGoodConditions == [t |-> "NotGoodConditions", w |-> <<>>]
NothingFound == [t |-> "NothingFound", w |-> <<>>]
Sentinels == {"Inconclusive", "NotGoodConditions", "NothingFound"}
NoCheck == [L |-> <<>>, R |-> <<>>, done |-> FALSE]
Checked(L, R) == [L |-> L, R |-> R, done |-> TRUE]

\* ------------------------------------------------------------ the tools
\* _try_rational finding no rational solution
_try_rational_nothing(dop) == NoneV

\* _try_rational: the first-order right factor of the first rational
\* solution the solver yields, or None.  In the word representation the
\* operator has a rational solution exactly when its rightmost irreducible
\* factor is a first-order factor that has one.
_try_rational(dop) ==
    IF /\ dop # <<>>
       /\ AtomOrder[dop[Len(dop)][1]] = 1
       /\ AtomRat[dop[Len(dop)][1]]
    THEN Op(<<dop[Len(dop)]>>)
    ELSE NoneV

\* line 140 with "if" for "while"
ShiftOnce(s, sings) == IF s \in sings THEN s + 1 ELSE s

\* rfactor, line 140: while s0 in sings: s0 = s0 + 1
RECURSIVE ShiftFrom(_, _)
ShiftFrom(s, sings) == IF s \in sings THEN ShiftFrom(s + 1, sings) ELSE s

\* rfactor, lines 139-140: the base-point shift s0
BasePointShift(dop) == ShiftFrom(0, Singularities(dop))

\* _degree_bound_for_right_factor; r*r*(r-1) is even, the division is exact
_degree_bound_for_right_factor(dop) ==
    LET r == Order(dop) - 1
        S == Cardinality(Singularities(dop))
        E == LargestExponent(dop)
    IN r * r * (S + 1) * E + r * S + (r * r * (r - 1) * (S - 1)) \div 2

\* rfactor_via_monodromy, lines 173-175: the default truncation order
DefaultOrder(dop, bound) ==
    LET r == Order(dop)
    IN Max2(Min2(Min2(r * Degree(dop), 100), bound * (r + 1) + 1), 1)

\* rfactor_via_monodromy, line 179: the default precision
DefaultPrecision(dop) == 50 * (Order(dop) + 1)

\* the retry leaving the precision as it is
NextPrecisionSame(precision, loss) == precision + Max2(0, loss - precision)

\* the precision raised by 150 whatever the loss
NextPrecisionPlain(precision, loss) == precision + 150

\* rfactor_via_monodromy, lines 220 and 223
NextPrecision(precision, loss) == precision + Max2(150, precision - loss)

\* the order shifted right (order>>1) instead of left
NextOrderHalved(dop, bound, order) ==
    Min2(bound * (Order(dop) + 1) + 1, order \div 2)

\* rfactor_via_monodromy, line 224
NextOrder(dop, bound, order) == Min2(bound * (Order(dop) + 1) + 1, 2 * order)

\* the loss of the last matrix alone
NextLossLocal(precision, loss, acc) == Max2(0, precision - acc)

\* rfactor_via_monodromy, lines 191-193
NextLoss(precision, loss, acc) ==
    LET local_loss == Max2(0, precision - acc)
    IN IF local_loss > loss THEN local_loss ELSE loss

\* customized_accuracy of a list of matrices: the least accurate entry
RECURSIVE customized_accuracy(_)
customized_accuracy(mono) ==
    IF Len(mono) = 1 THEN mono[1]
    ELSE Min2(mono[1], customized_accuracy(Tail(mono)))

\* _random_combination without the test of line 451
RandomCombinationNever(mono) == mono = <<>>

\* _random_combination, line 451: raises PrecisionError
RandomCombinationRaises(mono) == customized_accuracy(mono) < 10

\* ------------------------------------------------------------ annihilator
\* operators a guessing routine or an approximant basis can propose for
\* dop: its right factors (an operator of order 0 and dop itself among
\* them) and the irreducible operators, right factors or not
Candidates(dop) ==
    LET sh == IF dop = <<>> THEN 0 ELSE dop[1][2]
    IN {SubSeq(dop, i, Len(dop)) : i \in 1..(Len(dop) + 1)}
       \cup {<< <<a, sh>> >> : a \in Atoms}

\* what _guess_symbolic_coefficients can recognise: nothing, rational
\* coefficients (K = QQ), or a number field of degree 2..alg_degree
SymbolicChoices(alg_degree) ==
    {"NothingFound", "QQ"} \cup (IF alg_degree >= 2 THEN {"K"} ELSE {})

\* annihilator returning the row of the approximant basis without dividing
annihilator_unchecked(dop, d, sym, cand, ok) ==
    LET r == Order(dop)
    IN IF d = r THEN [val |-> Op(dop), chk |-> NoCheck]
       ELSE IF sym = "NothingFound" THEN [val |-> Inconclusive, chk |-> NoCheck]
       ELSE IF sym = "QQ" /\ FieldDegree(dop) = 1
       THEN IF ok /\ 0 < Order(cand) /\ Order(cand) < r /\ Divides(cand, dop)
            THEN [val |-> Op(cand), chk |-> Checked(dop, cand)]
            ELSE [val |-> Inconclusive, chk |-> NoCheck]
       ELSE IF ok
            THEN [val |-> Op(cand), chk |-> NoCheck]
            ELSE [val |-> Inconclusive, chk |-> NoCheck]

\* annihilator without the test on the order of the guessed operator
annihilator_any_order(dop, d, sym, cand, ok) ==
    LET r == Order(dop)
    IN IF d = r THEN [val |-> Op(dop), chk |-> NoCheck]
       ELSE IF sym = "NothingFound" THEN [val |-> Inconclusive, chk |-> NoCheck]
       ELSE IF ok /\ Divides(cand, dop)
            THEN [val |-> Op(cand), chk |-> Checked(dop, cand)]
            ELSE [val |-> Inconclusive, chk |-> NoCheck]

\* annihilator(dop, ic, order, bound, alg_degree, mono): d is the dimension
\* of the orbit of ic, sym the recognised field, cand the operator proposed
\* by guess (K = base field = QQ) or by the approximant basis, ok whether
\* guess returned without ValueError, resp. whether the row degrees satisfy
\* max(rdeg) > 1 + min(rdeg).  Returns the value and the division check
\* that was made on it.
annihilator(dop, d, sym, cand, ok) ==
    LET r == Order(dop)
    IN IF d = r THEN [val |-> Op(dop), chk |-> NoCheck]
       ELSE IF sym = "NothingFound" THEN [val |-> Inconclusive, chk |-> NoCheck]
       ELSE IF sym = "QQ" /\ FieldDegree(dop) = 1
       THEN IF ok /\ 0 < Order(cand) /\ Order(cand) < r /\ Divides(cand, dop)
            THEN [val |-> Op(cand), chk |-> Checked(dop, cand)]
            ELSE [val |-> Inconclusive, chk |-> NoCheck]
       ELSE IF ok /\ Divides(cand, dop)
            THEN [val |-> Op(cand), chk |-> Checked(dop, cand)]
            ELSE [val |-> Inconclusive, chk |-> NoCheck]

\* the data of one call of annihilator on dop: <<d, sym, cand, ok>>.  On
\* the approximant path the basis has the d + 1 rows f, ..., f^(d), so the
\* proposed operator has order at most d; and when the row degrees satisfy
\* max(rdeg) > 1 + min(rdeg) the row of minimum degree is not of order 0:
\* a row p*f = 0 mod z^order has degree at least order - val(f), the row
\* degrees of a reduced basis sum to order - min val(f^(k)), and the two
\* are compatible with the test only if order <= val(f), where every row
\* has degree at most 1
AnnihilatorData(dop, alg_degree) ==
    {y \in (1..Order(dop)) \X SymbolicChoices(alg_degree)
            \X Candidates(dop) \X BOOLEAN :
        \/ y[2] = "QQ" /\ FieldDegree(dop) = 1
        \/ Order(y[3]) <= y[1] /\ (y[4] => Order(y[3]) >= 1)}

\* every outcome of one call of annihilator on dop
AnnihilatorOutcomes(dop, alg_degree) ==
    {annihilator(dop, x[1], x[2], x[3], x[4]) :
        x \in AnnihilatorData(dop, alg_degree)}

\* ------------------------------------------------------------- strategies
\* one_dimensional_eigenspaces, lines 272-283: spaces[i].dim is
\* len(eigspace) of the i-th eigenspace and spaces[i].ann what annihilator
\* returns for its first vector
RECURSIVE OneDimLoop(_, _, _)
OneDimLoop(dop, spaces, conclusive) ==
    IF spaces = <<>>
    THEN IF conclusive THEN [val |-> NoneV, chk |-> NoCheck]
         ELSE [val |-> Inconclusive, chk |-> NoCheck]
    ELSE IF spaces[1].dim > 1
    THEN [val |-> NotGoodConditions, chk |-> NoCheck]
    ELSE LET R == spaces[1].ann
         IN IF R.val # Op(dop) THEN R
            ELSE OneDimLoop(dop, Tail(spaces),
                            conclusive /\ R.val # Inconclusive)

one_dimensional_eigenspaces(dop, spaces) == OneDimLoop(dop, spaces, TRUE)

\* the eigenspace data gen_eigenspaces and ker can give for dop
RECURSIVE SeqsUpTo(_, _)
SeqsUpTo(S, n) ==
    IF n = 0 THEN {<<>>}
    ELSE LET W == SeqsUpTo(S, n - 1)
         IN W \cup {Append(w, x) : w \in {v \in W : Len(v) = n - 1}, x \in S}

\* (annihilator is not called on an eigenspace of dimension 2)
OneDimOutcomes(dop, alg_degree) ==
    LET A == AnnihilatorOutcomes(dop, alg_degree)
        Sp == [dim : {1}, ann : A]
              \cup {[dim |-> 2, ann |-> [val |-> Inconclusive, chk |-> NoCheck]]}
    IN {one_dimensional_eigenspaces(dop, sp) : sp \in SeqsUpTo(Sp, MaxSpaces) \ {<<>>}}

\* simple_eigenvalue, lines 298-319: mults are the multiplicities of the
\* eigenspaces, R what annihilator returns on dop, kdim the dimension of
\* the kernel for the adjoint, adjQ what annihilator returns on the adjoint
RECURSIVE HasSimple(_)
HasSimple(mults) ==
    IF mults = <<>> THEN FALSE ELSE mults[1] = 1 \/ HasSimple(Tail(mults))

\* simple_eigenvalue concluding from the direct annihilator alone
simple_eigenvalue_direct(dop, mults, R, kdim, adjQ) ==
    IF ~HasSimple(mults)
    THEN [val |-> NotGoodConditions, chk |-> NoCheck, via |-> "simple"]
    ELSE IF R.val = Op(dop)
    THEN [val |-> NoneV, chk |-> NoCheck, via |-> "simple"]
    ELSE [val |-> R.val, chk |-> R.chk, via |-> "simple"]

simple_eigenvalue(dop, mults, R, kdim, adjQ) ==
    LET adj_dop == myadjoint(dop)
        Inc == [val |-> Inconclusive, chk |-> NoCheck, via |-> "simple"]
    IN IF ~HasSimple(mults)
       THEN [val |-> NotGoodConditions, chk |-> NoCheck, via |-> "simple"]
       ELSE IF R.val # Inconclusive /\ R.val # Op(dop)
       THEN [val |-> R.val, chk |-> R.chk, via |-> "simple"]
       ELSE IF kdim = 0 THEN Inc
       ELSE IF kdim > 1 THEN Inc
       ELSE IF adjQ.val # Inconclusive /\ adjQ.val # Op(adj_dop)
       THEN [val |-> Op(myadjoint(Quo(adj_dop, adjQ.val.w))),
             chk |-> adjQ.chk, via |-> "simple_adj"]
       ELSE IF R.val = Op(dop) /\ adjQ.val = Op(adj_dop)
       THEN [val |-> NoneV, chk |-> NoCheck, via |-> "simple_adj"]
       ELSE Inc

SimpleOutcomes(dop, alg_degree) ==
    {simple_eigenvalue(dop, x[1], x[2], x[3], x[4]) :
        x \in (SeqsUpTo({1, 2}, MaxSpaces) \ {<<>>})
              \X AnnihilatorOutcomes(dop, alg_degree)
              \X (0..2)
              \X AnnihilatorOutcomes(myadjoint(dop), alg_degree)}

\* multiple_eigenvalue, lines 326-331: found is whether invariant_subspace
\* returned a subspace, R what annihilator returns on its first vector
multiple_eigenvalue(dop, found, R) ==
    IF ~found THEN [val |-> NoneV, chk |-> NoCheck]
    ELSE IF R.val # Inconclusive /\ Order(R.val.w) < Order(dop) THEN R
    ELSE [val |-> Inconclusive, chk |-> NoCheck]

MultipleOutcomes(dop, alg_degree) ==
    {multiple_eigenvalue(dop, x[1], x[2]) :
        x \in BOOLEAN \X AnnihilatorOutcomes(dop, alg_degree)}

\* the approximation order rounded up
ApproximantOrderCeil(order, r) == (order + r - 1) \div r

\* rfactor_when_monodromy_is_trivial, line 251: the order at which the
\* minimal approximant basis is computed, max(order//r, 1)
ApproximantOrder(order, r) == Max2(order \div r, 1)

\* the recursive call made with the same order
RetryOrderSame(order) == order

\* rfactor_when_monodromy_is_trivial, line 257: order<<1
RetryOrder(order) == 2 * order

\* rfactor_when_monodromy_is_trivial, lines 251-254: the operator read off
\* the row of minimum degree of the approximant basis, of order at most r-1
FallbackCandidates(dop) == {c \in Candidates(dop) : Order(c) < Order(dop)}

\* Split with the operands in the wrong order
SplitSwapped(dop, R) == <<R, Quo(dop, R)>>

\* Split recursing on dop instead of the quotient
SplitNoQuotient(dop, R) == <<dop, R>>

\* _factor, lines 87-91: the operands of the two recursive calls, left first
Split(dop, R) == <<Quo(dop, R), R>>

\* the ladder starting with simple_eigenvalue
LadderSimpleFirst(od, si, mu) ==
    IF si.val = NotGoodConditions
    THEN IF od.val = NotGoodConditions
         THEN [val |-> mu.val, chk |-> mu.chk, via |-> "multiple"]
         ELSE [val |-> od.val, chk |-> od.chk, via |-> "one_dim"]
    ELSE si

\* lines 199-205: the strategies in order, od, si and mu being what
\* one_dimensional_eigenspaces, simple_eigenvalue and multiple_eigenvalue
\* return on the matrices so far
Ladder(od, si, mu) ==
    IF od.val = NotGoodConditions
    THEN IF si.val = NotGoodConditions
         THEN [val |-> mu.val, chk |-> mu.chk, via |-> "multiple"]
         ELSE si
    ELSE [val |-> od.val, chk |-> od.chk, via |-> "one_dim"]

LadderOutcomes(d, alg) ==
    {Ladder(x[1], x[2], x[3]) :
        x \in OneDimOutcomes(d, alg) \X SimpleOutcomes(d, alg)
              \X MultipleOutcomes(d, alg)}

\* ------------------------------------------------------------------ state
VARIABLES
    input,       \* the operator factor was called on
    pc,          \* position of the computation
    todo,        \* operands of the pending calls of _factor, next first
    fac,         \* the leaves returned so far, in order
    irred,       \* operators on which rfactor returned None
    improper,    \* rfactor has returned an operator of order 0 or ord(dop)
    dop,         \* operand of the running call of rfactor
    stages,      \* stages the running call of rfactor has run
    path,        \* the place the value of the running call came from
    chk,         \* the exact division that succeeded in the running call
    rres,        \* value returned by rfactor
    s0,          \* base-point shift chosen by rfactor
    sdop,        \* operand of rfactor_via_monodromy (shifted, monic)
    order, bound, alg_degree, precision, loss,
    mono,        \* customized accuracy of each non-scalar matrix, in order
    nyield,      \* items the engine's iterator has produced in this attempt
    attempt,     \* recursive calls made by the pipeline or the fallback
    ladder,      \* what the strategies can return in the running call
    seen,        \* largest max(0, precision - accuracy) over the matrices
                 \* received since rfactor_via_monodromy was entered
    res,         \* value returned by rfactor_via_monodromy
    call,        \* a single call of one function: its name and arguments
    ret          \* the value that call returned

drv == <<input, pc, todo, fac, irred, improper, dop, stages, path, chk, rres,
         call, ret>>
pipe == <<s0, sdop, order, bound, alg_degree, precision, loss, mono, nyield,
          attempt, ladder, seen, res>>
vars == <<drv, pipe>>

\* call and ret while no single function is being called
NoCall == [f |-> "none"]
NoValue == [val |-> [t |-> "none", w |-> <<>>], chk |-> NoCheck, via |-> "none"]

\* the pipeline's variables outside a call of rfactor_via_monodromy
PipeIdle ==
    /\ s0 = 0 /\ sdop = <<>> /\ order = 0 /\ bound = 0 /\ alg_degree = 0
    /\ precision = 0 /\ loss = 0 /\ mono = <<>> /\ nyield = 0 /\ attempt = 0
    /\ ladder = {} /\ seen = 0 /\ res = NoneV

PipeReset ==
    /\ s0' = 0 /\ sdop' = <<>> /\ order' = 0 /\ bound' = 0 /\ alg_degree' = 0
    /\ precision' = 0 /\ loss' = 0 /\ mono' = <<>> /\ nyield' = 0 /\ attempt' = 0
    /\ ladder' = {} /\ seen' = 0 /\ res' = NoneV

Init ==
    /\ input \in Inputs
    /\ pc = "factor"
    /\ todo = <<input>>
    /\ fac = <<>>
    /\ irred = {}
    /\ improper = FALSE
    /\ dop = <<>>
    /\ stages = <<>>
    /\ path = "none"
    /\ chk = NoCheck
    /\ rres = NoneV
    /\ PipeIdle
    /\ call = NoCall /\ ret = NoValue

\* ----------------------------------------------------------------- factor
\* _factor, line 85: call rfactor on the next operand
FactorCall ==
    /\ pc = "factor" /\ todo # <<>>
    /\ dop' = Head(todo) /\ todo' = Tail(todo)
    /\ pc' = "rfactor"
    /\ stages' = <<>> /\ path' = "none" /\ chk' = NoCheck /\ rres' = NoneV
    /\ UNCHANGED <<call, ret, input, fac, irred, improper, pipe>>

\* the test of line 86 accepting every value
IsLeafAlways(R) == R = NoneV \/ R.t = "op"

\* _factor, line 86: if R==None
IsLeaf(R) == R = NoneV

\* _factor, line 86: rfactor returned None, dop is a leaf
FactorLeaf ==
    /\ pc = "back" /\ IsLeaf(rres)
    /\ fac' = Append(fac, dop)
    /\ pc' = "factor"
    /\ PipeReset
    /\ UNCHANGED <<call, ret, input, todo, irred, improper, dop, stages, path, chk, rres>>

\* _factor, lines 87-91: recurse on the quotient, then on the factor
FactorSplit ==
    /\ pc = "back" /\ ~IsLeaf(rres)
    /\ Len(fac) + Len(todo) + 2 <= MaxFactors
    /\ todo' = Split(dop, rres.w) \o todo
    /\ pc' = "factor"
    /\ PipeReset
    /\ UNCHANGED <<call, ret, input, fac, irred, improper, dop, stages, path, chk, rres>>

\* factor, lines 93-99: every call returned (the coefficient fields of the
\* factors are not represented, the coercion of line 97 changes no word)
FactorDone ==
    /\ pc = "factor" /\ todo = <<>>
    /\ pc' = "done"
    /\ UNCHANGED <<call, ret, input, todo, fac, irred, improper, dop, stages, path, chk, rres, pipe>>

\* ---------------------------------------------------------------- rfactor
\* the guard of line 130 off by one
RfactorLowOrderOff(d) == Order(d) < 1

\* rfactor, lines 129-131
RfactorLowOrder(d) == Order(d) < 2

RfactorGuard ==
    /\ pc = "rfactor" /\ RfactorLowOrder(dop)
    /\ rres' = NoneV /\ path' = "guard" /\ pc' = "back"
    /\ irred' = irred \cup {dop}
    /\ UNCHANGED <<call, ret, input, todo, fac, improper, dop, stages, chk, pipe>>

\* rfactor, lines 132-134: the rational probe yields a factor
RfactorRational ==
    /\ pc = "rfactor" /\ ~RfactorLowOrder(dop)
    /\ _try_rational(dop) # NoneV
    /\ stages' = Append(stages, "rational")
    /\ rres' = _try_rational(dop) /\ path' = "rational" /\ pc' = "back"
    /\ UNCHANGED <<call, ret, input, todo, fac, irred, improper, dop, chk, pipe>>

\* rfactor, lines 132-142, and rfactor_via_monodromy, lines 164-188: the
\* probe yields nothing, the base point is moved off the singularities and
\* the pipeline is entered with its default parameters
RfactorPipeline ==
    /\ pc = "rfactor" /\ ~RfactorLowOrder(dop)
    /\ _try_rational(dop) = NoneV
    /\ stages' = stages \o <<"rational", "singularities", "monodromy">>
    /\ s0' = BasePointShift(dop)
    /\ sdop' = Shift(dop, s0')
    /\ bound' = _degree_bound_for_right_factor(sdop')
    /\ order' = DefaultOrder(sdop', bound')
    /\ alg_degree' = FieldDegree(sdop')
    /\ precision' = DefaultPrecision(sdop')
    /\ loss' = 0 /\ mono' = <<>> /\ nyield' = 0 /\ attempt' = 0
    /\ ladder' = LadderOutcomes(sdop', alg_degree') /\ seen' = 0
    /\ pc' = IF 0 \in Singularities(sdop') THEN "breakpoint" ELSE "loop"
    /\ UNCHANGED <<call, ret, input, todo, fac, irred, improper, dop, path, chk, rres, res>>

\* rfactor, lines 144-145: undo the shift on the factor (None stays None)
ShiftBack(R, s) == IF R = NoneV THEN NoneV ELSE Op(Shift(R.w, 0 - s))

\* --------------------------------------------------- rfactor_via_monodromy
\* accuracies the engine's matrices can have when eps = 2^-precision is
\* requested
AccChoices(prec) == {LowAcc, prec - AccDrop, prec}

\* the test of line 206 missing
DefinitiveAlways(R) == R.t \in {"op", "None"} \cup Sentinels

\* lines 206-214: R is returned unless it is "Inconclusive"
Definitive(R) == R # Inconclusive

\* the iterator has an item left: one per singularity at most
EngineHasNext == nyield < Cardinality(Singularities(sdop))

\* the parameters of the pipeline once rfactor_via_monodromy has returned
ParamsReset ==
    /\ order' = 0 /\ bound' = 0 /\ alg_degree' = 0
    /\ nyield' = 0 /\ attempt' = 0 /\ ladder' = {}

\* the largest loss of accuracy once a matrix of accuracy acc is received
SeenWith(acc) == Max2(seen, Max2(0, precision - acc))

\* rfactor_via_monodromy returns R to rfactor (line 214 or 216), which
\* undoes the shift and returns (lines 144-145); l and m are the loss and
\* the matrices at the return
Return(R, check, via, l, m) ==
    /\ res' = R /\ chk' = check /\ path' = via
    /\ rres' = ShiftBack(R, s0)
    /\ irred' = IF R = NoneV THEN irred \cup {dop} ELSE irred
    /\ improper' = (improper \/ (R.t = "op" /\ Order(R.w) \in {0, Order(dop)}))
    /\ pc' = "back"
    /\ ParamsReset
    /\ loss' = l /\ mono' = m
    /\ UNCHANGED <<call, ret, input, todo, fac, dop, stages, s0, sdop, precision>>

\* lines 219-221: PrecisionError or ZeroDivisionError caught, call again
\* with the loss l recorded so far; a is the count of recursive calls
PrecisionRetry(l, a) ==
    /\ precision' = NextPrecision(precision, l)
    /\ loss' = l
    /\ mono' = <<>> /\ nyield' = 0 /\ attempt' = a
    /\ UNCHANGED <<call, ret, input, todo, fac, irred, improper, dop, stages, path, chk, rres, pc, s0, sdop, order, bound, alg_degree, ladder, res>>

\* lines 189-190: the engine yields a scalar matrix, which is skipped
EngineScalar ==
    /\ pc = "loop" /\ EngineHasNext
    /\ nyield' = nyield + 1
    /\ UNCHANGED <<drv, s0, sdop, order, bound, alg_degree, precision, loss,
                   mono, attempt, ladder, seen, res>>

\* lines 189-214: the engine yields a non-scalar matrix of accuracy acc,
\* the loss is updated, the matrix appended, and a strategy returns a
\* definitive value, which the pipeline returns
MatrixReturn ==
    /\ pc = "loop" /\ EngineHasNext
    /\ \E acc \in AccChoices(precision), out \in ladder :
          /\ ~RandomCombinationRaises(Append(mono, acc))
          /\ Definitive(out.val)
          /\ Return(out.val, out.chk, out.via,
                    NextLoss(precision, loss, acc), Append(mono, acc))
          /\ seen' = SeenWith(acc)

\* lines 189-206: the same, and the strategies are inconclusive: the loop
\* goes on to the next item
MatrixInconclusive ==
    /\ pc = "loop" /\ EngineHasNext
    /\ \E out \in ladder : ~Definitive(out.val)
    /\ \E acc \in AccChoices(precision) :
          /\ ~RandomCombinationRaises(Append(mono, acc))
          /\ loss' = NextLoss(precision, loss, acc)
          /\ mono' = Append(mono, acc)
          /\ seen' = SeenWith(acc)
    /\ nyield' = nyield + 1
    /\ UNCHANGED <<drv, s0, sdop, order, bound, alg_degree, precision,
                   attempt, ladder, res>>

\* lines 189-199 and 219-221: the same, and _random_combination (line 451)
\* raises PrecisionError on the matrices so far
MatrixLowAccuracy ==
    /\ pc = "loop" /\ EngineHasNext
    /\ attempt < MaxAttempts
    /\ \E acc \in AccChoices(precision) :
          /\ RandomCombinationRaises(Append(mono, acc))
          /\ PrecisionRetry(NextLoss(precision, loss, acc), attempt + 1)
          /\ seen' = SeenWith(acc)

\* lines 189-205 and 219-221: the same, and a linear-algebra routine of a
\* strategy raises PrecisionError or ZeroDivisionError
MatrixError ==
    /\ pc = "loop" /\ EngineHasNext
    /\ attempt < MaxAttempts
    /\ \E acc \in AccChoices(precision) :
          /\ ~RandomCombinationRaises(Append(mono, acc))
          /\ PrecisionRetry(NextLoss(precision, loss, acc), attempt + 1)
          /\ seen' = SeenWith(acc)

\* lines 188-189 and 219-221: the engine raises PrecisionError
EngineError ==
    /\ pc = "loop"
    /\ attempt < MaxAttempts
    /\ PrecisionRetry(loss, attempt + 1)
    /\ seen' = seen

\* the fallback called at the end of the stream whatever mono holds
EngineEndFallbackAlways ==
    /\ pc = "loop"
    /\ pc' = "trivial"
    /\ bound' = 0 /\ alg_degree' = 0 /\ precision' = 0 /\ loss' = 0
    /\ nyield' = 0 /\ attempt' = 0 /\ ladder' = {} /\ seen' = 0
    /\ mono' = <<>>
    /\ UNCHANGED <<call, ret, input, todo, fac, irred, improper, dop, stages,
                   path, chk, rres, s0, sdop, order, res>>

\* lines 215-216: the stream ended without a non-scalar matrix, the
\* fallback is called with the current order
EngineEndTrivial ==
    /\ pc = "loop" /\ mono = <<>>
    /\ pc' = "trivial"
    /\ bound' = 0 /\ alg_degree' = 0 /\ precision' = 0 /\ loss' = 0
    /\ nyield' = 0 /\ attempt' = 0 /\ ladder' = {} /\ seen' = 0
    /\ UNCHANGED <<call, ret, input, todo, fac, irred, improper, dop, stages, path, chk, rres, s0, sdop, order, mono, res>>

\* the retry after exhaustion made like the retry after an error
ExhaustionAsError(a) == PrecisionRetry(loss, a) /\ seen' = seen

\* lines 223-225: call again with the precision, the order and the
\* algebraic degree raised; a is the count of recursive calls
ExhaustionRetry(a) ==
    /\ precision' = NextPrecision(precision, loss)
    /\ order' = NextOrder(sdop, bound, order)
    /\ alg_degree' = alg_degree + 1
    /\ mono' = <<>> /\ nyield' = 0 /\ attempt' = a
    /\ ladder' = LadderOutcomes(sdop, alg_degree')
    /\ UNCHANGED <<call, ret, input, todo, fac, irred, improper, dop, stages, path, chk, rres, pc, s0, sdop, bound, loss, seen, res>>

\* lines 215 and 223-225: the stream ended, every strategy was inconclusive
EngineEndExhausted ==
    /\ pc = "loop" /\ mono # <<>>
    /\ attempt < MaxAttempts
    /\ ExhaustionRetry(attempt + 1)

\* ------------------------------------ rfactor_when_monodromy_is_trivial
\* lines 251-255: the candidate divides dop and is returned
TrivialReturn ==
    /\ pc = "trivial"
    /\ \E R \in FallbackCandidates(sdop) :
          /\ Divides(R, sdop)
          /\ Return(Op(R), Checked(sdop, R), "trivial", loss, mono)
    /\ seen' = seen

\* lines 257-258: call again with the order doubled; a is the count of
\* recursive calls
DoubleOrder(a) ==
    /\ order' = 2 * order /\ attempt' = a
    /\ UNCHANGED <<drv, s0, sdop, bound, alg_degree, precision, loss, mono,
                   nyield, ladder, seen, res>>

\* lines 255-258: the candidate does not divide dop
TrivialRetry ==
    /\ pc = "trivial"
    /\ \E R \in FallbackCandidates(sdop) : ~Divides(R, sdop)
    /\ attempt < MaxAttempts
    /\ DoubleOrder(attempt + 1)

\* ----------------------------------------- the pipeline under an engine and
\* strategies that succeed once the parameters are large enough: no error
\* is raised at precision EnoughPrecision, no strategy is inconclusive when
\* moreover the algebraic degree is EnoughDegree, and the approximant basis
\* of the fallback gives a right factor at order EnoughOrder.  The count of
\* recursive calls is not kept.
Succeeds == precision >= EnoughPrecision /\ alg_degree >= EnoughDegree

LiveEngineError ==
    /\ pc = "loop" /\ precision < EnoughPrecision
    /\ PrecisionRetry(loss, attempt)
    /\ seen' = seen

LiveMatrixLowAccuracy ==
    /\ pc = "loop" /\ EngineHasNext /\ precision < EnoughPrecision
    /\ \E acc \in AccChoices(precision) :
          /\ RandomCombinationRaises(Append(mono, acc))
          /\ PrecisionRetry(NextLoss(precision, loss, acc), attempt)
          /\ seen' = SeenWith(acc)

LiveMatrixError ==
    /\ pc = "loop" /\ EngineHasNext /\ precision < EnoughPrecision
    /\ \E acc \in AccChoices(precision) :
          /\ ~RandomCombinationRaises(Append(mono, acc))
          /\ PrecisionRetry(NextLoss(precision, loss, acc), attempt)
          /\ seen' = SeenWith(acc)

LiveMatrixInconclusive == ~Succeeds /\ MatrixInconclusive

LiveEngineEndExhausted ==
    /\ pc = "loop" /\ mono # <<>>
    /\ ExhaustionRetry(attempt)

LiveTrivialRetry ==
    /\ pc = "trivial" /\ order < EnoughOrder
    /\ \E R \in FallbackCandidates(sdop) : ~Divides(R, sdop)
    /\ DoubleOrder(attempt)

\* ------------------------------------------ single calls of the functions
\* the operators the strategies are called on: rfactor returns at once
\* below order 2
FnOps == {d \in Inputs : Order(d) >= 2}

\* what annihilator can return on d once algebraic coefficients may be
\* recognised
FnAnnihilator(d) == AnnihilatorOutcomes(d, FieldDegree(d) + 1)

\* the eigenspaces one_dimensional_eigenspaces can be given for d
FnSpaces(d) ==
    [dim : {1}, ann : FnAnnihilator(d)]
    \cup {[dim |-> 2, ann |-> [val |-> Inconclusive, chk |-> NoCheck]]}

\* the calls one_dimensional_eigenspaces(dop, mono, ...)
OneDimCalls ==
    UNION {[f : {"one_dimensional_eigenspaces"}, dop : {d},
            spaces : SeqsUpTo(FnSpaces(d), MaxSpaces) \ {<<>>}] : d \in FnOps}

\* the calls simple_eigenvalue(dop, mono, ...): the multiplicities of the
\* eigenspaces, the annihilator of the eigenvector, the dimension of the
\* kernel for the adjoint and the annihilator of the adjoint eigenvector
SimpleCalls ==
    UNION {[f : {"simple_eigenvalue"}, dop : {d},
            mults : SeqsUpTo({1, 2}, MaxSpaces) \ {<<>>},
            R : FnAnnihilator(d), kdim : 0..2,
            adjQ : FnAnnihilator(myadjoint(d))] : d \in FnOps}

\* the calls rfactor_when_monodromy_is_trivial(dop, order); sigma is the
\* order of the last minimal approximant basis computed, 0 before the first
TrivialCalls ==
    [f : {"rfactor_when_monodromy_is_trivial"}, dop : FnOps,
     order : 0..MaxCallOrder, sigma : {0}]

\* the calls annihilator(dop, ic, ..., mono): given is whether mono is
\* passed; without it d is r - 1 (line 336)
AnnihilatorCalls ==
    UNION {{[f |-> "annihilator", dop |-> d, given |-> g, d |-> y[1],
             sym |-> y[2], cand |-> y[3], ok |-> y[4]] :
              y \in {x \in AnnihilatorData(d, FieldDegree(d) + 1) :
                       g \/ x[1] = Order(d) - 1}} :
           d \in FnOps, g \in BOOLEAN}

FnCalls == OneDimCalls \cup SimpleCalls \cup TrivialCalls \cup AnnihilatorCalls

InitFn ==
    /\ call \in FnCalls /\ ret = NoValue
    /\ pc = "call"
    /\ input = <<>> /\ todo = <<>> /\ fac = <<>> /\ irred = {}
    /\ improper = FALSE /\ dop = <<>> /\ stages = <<>> /\ path = "none"
    /\ chk = NoCheck /\ rres = NoneV
    /\ PipeIdle

\* the variables of factor, which a single call leaves alone
FnFrame ==
    UNCHANGED <<input, todo, fac, irred, improper, dop, stages, path, chk,
                rres, pipe>>

\* one_dimensional_eigenspaces, lines 260-283
CallOneDim ==
    /\ pc = "call" /\ call.f = "one_dimensional_eigenspaces"
    /\ ret' = one_dimensional_eigenspaces(call.dop, call.spaces)
    /\ pc' = "returned"
    /\ UNCHANGED call /\ FnFrame

\* annihilator, lines 333-376
CallAnnihilator ==
    /\ pc = "call" /\ call.f = "annihilator"
    /\ ret' = annihilator(call.dop, call.d, call.sym, call.cand, call.ok)
    /\ pc' = "returned"
    /\ UNCHANGED call /\ FnFrame

\* simple_eigenvalue, lines 285-319
CallSimple ==
    /\ pc = "call" /\ call.f = "simple_eigenvalue"
    /\ ret' = simple_eigenvalue(call.dop, call.mults, call.R, call.kdim,
                                call.adjQ)
    /\ pc' = "returned"
    /\ UNCHANGED call /\ FnFrame

\* rfactor_when_monodromy_is_trivial, lines 251-255: the row of minimum
\* degree of the basis gives R, which divides dop and is returned
CallTrivialReturn ==
    /\ pc = "call" /\ call.f = "rfactor_when_monodromy_is_trivial"
    /\ \E R \in FallbackCandidates(call.dop) :
          /\ Divides(R, call.dop)
          /\ ret' = [val |-> Op(R), chk |-> Checked(call.dop, R),
                     via |-> "trivial"]
    /\ call' = [call EXCEPT
                  !.sigma = ApproximantOrder(call.order, Order(call.dop))]
    /\ pc' = "returned"
    /\ FnFrame

\* lines 251-258: R does not divide dop, the function calls itself with
\* the order doubled
CallTrivialRetry ==
    /\ pc = "call" /\ call.f = "rfactor_when_monodromy_is_trivial"
    /\ call.order <= MaxCallOrder
    /\ \E R \in FallbackCandidates(call.dop) : ~Divides(R, call.dop)
    /\ call' = [call EXCEPT
                  !.sigma = ApproximantOrder(call.order, Order(call.dop)),
                  !.order = RetryOrder(call.order)]
    /\ UNCHANGED <<pc, ret>> /\ FnFrame

\* ------------------------------------------------------------ properties
\* the operators _factor has still to return a leaf list for, after fac
Pending ==
    IF pc \in {"factor", "done"} THEN fac \o todo ELSE fac \o <<dop>> \o todo

\* values of path set by rfactor_via_monodromy and the fallback
PipelinePaths == {"one_dim", "simple", "simple_adj", "multiple", "trivial"}

\* C1: the product, in order, of the leaves returned so far and of the
\* operands still pending is the input; at every split dop = (dop // R) * R
\* with the quotient on the left; the list factor returns has product the
\* input
ThmC1 ==
    /\ Product(Pending) = input
    /\ (pc = "back" /\ ~IsLeaf(rres) =>
            Compose(Quo(dop, rres.w), rres.w) = dop)
    /\ (pc = "done" => Product(fac) = input)

WitC1 ==
    /\ pc = "done" /\ Len(fac) >= 2
    /\ Order(fac[1]) >= 1 /\ Order(fac[2]) >= 1 /\ fac[1] # fac[2]

ThmC8 ==
    /\ (pc = "back" /\ Order(dop) < 2 =>
            rres = NoneV /\ path = "guard" /\ stages = <<>> /\ PipeIdle)
    /\ (pc \in {"loop", "trivial", "breakpoint"} => Order(dop) >= 2)
    /\ (pc = "done" /\ Order(input) < 2 => fac = <<input>>)

WitC8 ==
    /\ pc = "done" /\ Order(input) = 1 /\ AtomRat[input[1][1]]
    /\ fac = <<input>>

\* C9: the shift s0 is the least nonnegative integer that is no singularity
\* of dop, the pipeline runs on dop composed with z + s0, of which 0 is an
\* ordinary point (the breakpoint is never reached), and the value rfactor
\* returns is None for None and else the factor composed with z - s0
ThmC9 ==
    /\ pc # "breakpoint"
    /\ (pc \in {"loop", "trivial"} \/ (pc = "back" /\ path \in PipelinePaths) =>
            /\ s0 >= 0 /\ s0 \notin Singularities(dop)
            /\ \A k \in 0..(s0 - 1) : k \in Singularities(dop)
            /\ sdop = Shift(dop, s0)
            /\ 0 \notin Singularities(sdop))
    /\ (pc = "back" /\ path \in PipelinePaths =>
            /\ (res = NoneV => rres = NoneV)
            /\ (res # NoneV => rres.t = "op" /\ Shift(rres.w, s0) = res.w))

WitC9 ==
    /\ pc = "back" /\ path \in PipelinePaths /\ s0 = 2
    /\ res.t = "op" /\ Order(res.w) >= 1

\* C10 (as stated): every matrix handed to the strategies has accuracy at
\* least the precision requested
CexC10 == \A i \in 1..Len(mono) : mono[i] >= precision

\* C10 (amended): every non-scalar matrix is handed to the strategies
\* whatever its accuracy, the loss recorded being at least precision minus
\* its accuracy; only matrices of accuracy below 10 bits are refused
ThmC10 ==
    \A i \in 1..Len(mono) : mono[i] >= 10 /\ loss >= precision - mono[i]

WitC10 ==
    /\ pc = "back" /\ res.t = "op" /\ Len(mono) >= 1
    /\ mono[Len(mono)] < precision /\ loss > 0

\* C11: when every eigenspace is one-dimensional and each annihilator is a
\* proper right factor, dop itself or "Inconclusive",
\* one_dimensional_eigenspaces returns a proper right factor if the
\* annihilator of any eigenvector is one, None if all annihilators are dop,
\* and "Inconclusive" otherwise
ProperFactor(v, d) ==
    v.t = "op" /\ 0 < Order(v.w) /\ Order(v.w) < Order(d) /\ Divides(v.w, d)

OneDimPlain ==
    /\ call.f = "one_dimensional_eigenspaces"
    /\ \A i \in 1..Len(call.spaces) :
          /\ call.spaces[i].dim = 1
          /\ \/ call.spaces[i].ann.val \in {Op(call.dop), Inconclusive}
             \/ ProperFactor(call.spaces[i].ann.val, call.dop)

CexC11 ==
    pc = "returned" /\ OneDimPlain =>
        LET vals == {call.spaces[i].ann.val : i \in 1..Len(call.spaces)}
            proper == {v \in vals : ProperFactor(v, call.dop)}
        IN IF proper # {} THEN ret.val \in proper
           ELSE IF vals = {Op(call.dop)} THEN ret.val = NoneV
           ELSE ret.val = Inconclusive

\* the failing call: the first annihilator is "Inconclusive", the second a
\* proper right factor, and "Inconclusive" is returned
FailC11 ==
    ~(/\ pc = "returned" /\ OneDimPlain
      /\ Len(call.spaces) = 2
      /\ call.spaces[1].ann.val = Inconclusive
      /\ ProperFactor(call.spaces[2].ann.val, call.dop)
      /\ ret.val = Inconclusive)


\* C12: at every retry of the pipeline (after an error or after
\* exhaustion) the precision strictly increases and neither the truncation
\* order nor the algebraic degree decreases
IsRetry == pc = "loop" /\ pc' = "loop" /\ attempt' = attempt + 1

ThmC12 ==
    [][IsRetry => /\ precision' > precision
                  /\ order' >= order
                  /\ alg_degree' >= alg_degree]_vars

WitC12 ==
    /\ pc = "loop" /\ attempt >= 1
    /\ precision > DefaultPrecision(sdop)
    /\ order > DefaultOrder(sdop, bound)
    /\ alg_degree > FieldDegree(sdop)

\* C13: when the engine, _random_combination or a strategy raises
\* PrecisionError or ZeroDivisionError, the pipeline goes on with the
\* precision raised by max(150, precision - loss), loss being the loss
\* recorded when the error is raised, and with the same order, bound and
\* algebraic degree; nothing is returned to rfactor
ErrorStep == EngineError \/ MatrixLowAccuracy \/ MatrixError

ThmC13 ==
    [][ErrorStep => /\ precision' = precision + Max2(150, precision - loss')
                    /\ order' = order /\ bound' = bound
                    /\ alg_degree' = alg_degree
                    /\ pc' = "loop" /\ mono' = <<>>
                    /\ rres' = rres /\ res' = res]_vars

WitC13 ==
    /\ pc = "loop" /\ attempt >= 1 /\ loss > 0
    /\ alg_degree = FieldDegree(sdop)
    /\ precision = DefaultPrecision(sdop)
                   + Max2(150, DefaultPrecision(sdop) - loss)
    /\ precision > DefaultPrecision(sdop) + 150

\* C14: when the stream ends after at least one non-scalar matrix and no
\* strategy run was definitive, the next attempt has precision
\* precision + max(150, precision - loss), order min(B*(r+1)+1, 2*order)
\* and algebraic degree alg_degree + 1, the bound B being unchanged
ThmC14 ==
    [][EngineEndExhausted =>
          /\ mono # <<>>
          /\ precision' = precision + Max2(150, precision - loss)
          /\ order' = Min2(bound * (Order(sdop) + 1) + 1, 2 * order)
          /\ alg_degree' = alg_degree + 1
          /\ bound' = bound /\ loss' = loss
          /\ pc' = "loop" /\ mono' = <<>>]_vars

WitC14 ==
    /\ pc = "loop" /\ attempt >= 1
    /\ alg_degree = FieldDegree(sdop) + 1
    /\ order = 2 * DefaultOrder(sdop, bound)
    /\ order < bound * (Order(sdop) + 1) + 1

\* C15: whatever the three strategies would return on the matrices so
\* far, the result of the ladder is that of one_dimensional_eigenspaces
\* unless it is "NotGoodConditions", else that of simple_eigenvalue unless
\* it is "NotGoodConditions", else that of multiple_eigenvalue, and is
\* never "NotGoodConditions"; every step that appends a matrix runs the
\* ladder once, returns its result at once if it is a factor or None, and
\* asks for the next matrix only if it is "Inconclusive"
LadderInOrder ==
    pc = "loop" /\ mono = <<>> /\ nyield = 0 =>
        \A od \in OneDimOutcomes(sdop, alg_degree),
           si \in SimpleOutcomes(sdop, alg_degree),
           mu \in MultipleOutcomes(sdop, alg_degree) :
            LET out == Ladder(od, si, mu)
            IN /\ out \in ladder
               /\ out.val # NotGoodConditions
               /\ od.val # NotGoodConditions =>
                      out.val = od.val /\ out.via = "one_dim"
               /\ od.val = NotGoodConditions /\ si.val # NotGoodConditions =>
                      out = si /\ out.via \in {"simple", "simple_adj"}
               /\ od.val = NotGoodConditions /\ si.val = NotGoodConditions =>
                      out.val = mu.val /\ out.via = "multiple"

AppendStep == pc = "loop" /\ Len(mono') = Len(mono) + 1

LadderStep ==
    AppendStep =>
        /\ SubSeq(mono', 1, Len(mono)) = mono
        /\ \/ /\ pc' = "back"
              /\ res'.t \in {"op", "None"}
              /\ \E out \in ladder : out.val = res' /\ out.via = path'
           \/ /\ pc' = "loop" /\ nyield' = nyield + 1
              /\ Inconclusive \in {out.val : out \in ladder}
              /\ UNCHANGED <<res, rres, path>>

ThmC15 == [][LadderStep]_vars /\ []LadderInOrder

WitC15 ==
    /\ pc = "back" /\ path = "multiple" /\ Len(mono) = 2 /\ res.t = "op"

\* C16: simple_eigenvalue returns "NotGoodConditions" exactly when no
\* eigenspace has multiplicity 1; otherwise a direct annihilator other
\* than "Inconclusive" and dop is returned as it is, and when it is
\* "Inconclusive" or dop the adjoint is tried: with a one-dimensional
\* kernel, an adjoint annihilator other than "Inconclusive" and the adjoint
\* of dop gives the factor myadjoint(adj_dop // adj_Q); None is returned
\* only when the direct annihilator is dop and the adjoint one the adjoint
\* of dop
SimpleReturned == pc = "returned" /\ call.f = "simple_eigenvalue"

ThmC16 ==
    SimpleReturned =>
        LET adj_dop == myadjoint(call.dop)
            direct == call.R.val \notin {Inconclusive, Op(call.dop)}
            dual == call.adjQ.val \notin {Inconclusive, Op(adj_dop)}
        IN /\ ret.val = NotGoodConditions <=> ~HasSimple(call.mults)
           /\ HasSimple(call.mults) /\ direct =>
                  ret.val = call.R.val /\ ret.via = "simple"
           /\ HasSimple(call.mults) /\ ~direct /\ call.kdim = 1 /\ dual =>
                  /\ ret.val = Op(myadjoint(Quo(adj_dop, call.adjQ.val.w)))
                  /\ ret.via = "simple_adj"
           /\ ret.val = NoneV =>
                  /\ call.R.val = Op(call.dop)
                  /\ call.adjQ.val = Op(adj_dop)
                  /\ call.kdim = 1

WitC16 ==
    /\ SimpleReturned /\ HasSimple(call.mults)
    /\ call.R.val = Inconclusive /\ call.kdim = 1
    /\ ret.val.t = "op" /\ ret.via = "simple_adj"
    /\ 0 < Order(ret.val.w) /\ Order(ret.val.w) < Order(call.dop)

\* C17 as stated: the fallback called with order n on an operator of
\* order r computes the approximant basis at order ceil(n/r), returns the
\* candidate if it divides dop and else calls itself with order 2n
TrivialStep ==
    /\ pc = "call" /\ call.f = "rfactor_when_monodromy_is_trivial"
    /\ call' # call

TrivialOutcome ==
    \/ /\ pc' = "returned" /\ call'.order = call.order
       /\ ret'.val.t = "op" /\ Divides(ret'.val.w, call.dop)
       /\ ret'.chk = Checked(call.dop, ret'.val.w)
    \/ /\ pc' = "call" /\ call'.order = 2 * call.order /\ ret' = ret

CexC17 ==
    [][TrivialStep =>
          /\ call'.sigma = (call.order + Order(call.dop) - 1)
                               \div Order(call.dop)
          /\ TrivialOutcome]_vars

\* C17: the fallback called with order n on an operator of order r
\* computes the approximant basis at order max(floor(n/r), 1), returns the
\* candidate if it divides dop and else calls itself with order 2n
ThmC17 ==
    [][TrivialStep =>
          /\ call'.sigma = Max2(call.order \div Order(call.dop), 1)
          /\ TrivialOutcome]_vars

WitC17 ==
    /\ pc = "returned" /\ call.f = "rfactor_when_monodromy_is_trivial"
    /\ call.order = 6 /\ Order(call.dop) = 2 /\ call.sigma = 3
    /\ ret.val.t = "op"

\* a call where max(floor(n/r), 1) and ceil(n/r) differ
WitC17Floor ==
    /\ pc = "returned" /\ call.f = "rfactor_when_monodromy_is_trivial"
    /\ call.order = 3 /\ Order(call.dop) = 2 /\ call.sigma = 1

\* C18: the fallback is entered only from the loop of an attempt in which
\* no non-scalar matrix was appended, on the same operator and with the
\* order of that attempt, nothing being returned by a strategy; when the
\* stream ends the fallback is entered if and only if mono is empty
ThmC18 ==
    /\ [][pc # "trivial" /\ pc' = "trivial" =>
            /\ pc = "loop" /\ mono = <<>>
            /\ order' = order /\ sdop' = sdop
            /\ UNCHANGED <<path, chk, res, rres, stages>>]_vars
    /\ [][EngineEndTrivial \/ EngineEndExhausted =>
              (pc' = "trivial" <=> mono = <<>>)]_vars

WitC18 ==
    /\ pc = "trivial" /\ attempt = 0
    /\ stages = <<"rational", "singularities", "monodromy">>
    /\ order = DefaultOrder(sdop, _degree_bound_for_right_factor(sdop))
    /\ Singularities(sdop) # {}

\* C19: during a call of rfactor_via_monodromy, retries included, loss is
\* non-negative, equals the largest max(0, precision - accuracy) over the
\* non-scalar matrices received since the call began, each with the
\* precision of its attempt, and never decreases
ThmC19 ==
    /\ [](loss >= 0 /\ loss = seen)
    /\ [][pc = "loop" /\ pc' \in {"loop", "back"} => loss' >= loss]_vars

WitC19 ==
    /\ pc = "loop" /\ attempt >= 1 /\ Len(mono) >= 1
    /\ loss > 0 /\ loss > precision - mono[1]

\* C20: annihilator returns dop exactly when mono is given and the orbit
\* has dimension r, whatever the recognition and the guessing would give;
\* otherwise it returns "Inconclusive" or an operator R with
\* 0 < ord(R) < r on which dop % R == 0 was tested, on the guess path and
\* on the approximant path alike
AnnihilatorReturned == pc = "returned" /\ call.f = "annihilator"

WitC20Guess ==
    /\ AnnihilatorReturned /\ ~call.given
    /\ call.sym = "QQ" /\ FieldDegree(call.dop) = 1
    /\ ProperFactor(ret.val, call.dop)

\* C21 as stated: the fallback never returns None; every call either
\* returns an operator R with dop % R == 0 or calls itself with a strictly
\* larger order, so it returns only if some candidate divides dop
FallbackNeverNone ==
    call.f = "rfactor_when_monodromy_is_trivial" =>
        /\ ret.val # NoneV
        /\ pc = "returned" =>
              /\ ret.val.t = "op" /\ Divides(ret.val.w, call.dop)
              /\ ret.val.w \in FallbackCandidates(call.dop)

WitC21Zero ==
    /\ pc = "call" /\ call.f = "rfactor_when_monodromy_is_trivial"
    /\ call.order = 0 /\ call.sigma = 1

Next ==
    \/ FactorCall \/ FactorLeaf \/ FactorSplit \/ FactorDone
    \/ RfactorGuard \/ RfactorRational \/ RfactorPipeline
    \/ EngineScalar \/ MatrixReturn \/ MatrixInconclusive
    \/ MatrixLowAccuracy \/ MatrixError \/ EngineError
    \/ EngineEndTrivial \/ EngineEndExhausted
    \/ TrivialReturn \/ TrivialRetry

Spec == Init /\ [][Next]_vars

\* the call of rfactor on the input, to its return
NextLive ==
    \/ FactorCall
    \/ RfactorGuard \/ RfactorRational \/ RfactorPipeline
    \/ EngineScalar \/ MatrixReturn \/ LiveMatrixInconclusive
    \/ LiveMatrixLowAccuracy \/ LiveMatrixError \/ LiveEngineError
    \/ EngineEndTrivial \/ LiveEngineEndExhausted
    \/ TrivialReturn \/ LiveTrivialRetry

\* the interpreter always takes the next step of the running call
SpecLive == Init /\ [][NextLive]_vars /\ WF_vars(NextLive)

\* one call of one function on arguments drawn from FnCalls
NextFn ==
    \/ CallOneDim \/ CallSimple
    \/ CallTrivialReturn \/ CallTrivialRetry
    \/ CallAnnihilator

SpecFn == InitFn /\ [][NextFn]_vars

====
